---- MODULE Spec2Model ----
(***************************************************************************)
(* A model of pylgrim's ESPPRC solver (src/pylgrim/ESPPRC.py):             *)
(*   preprocess_ESPPRC  -- graph reduction and least-resource table        *)
(*   GLSA               -- general label setting algorithm                 *)
(*   GSSA               -- general state space augmenting algorithm        *)
(*   _is_dominated      -- dominance between two labels                    *)
(* A label is the pair <<cost, resources>> of the source; positions in the *)
(* pending set L are 0-based as in the source, TLA+ sequences are 1-based, *)
(* so labels[v][i + 1] is the source's labels[v][i].                       *)
(***************************************************************************)
EXTENDS Integers, Sequences, FiniteSets, TLC

VARIABLES
    G, source, target, max_res,         \* the caller's inputs
    pc, err,                            \* position in the program; the exception that ended it
    reachable_nodes, H, res_min,        \* preprocess_ESPPRC: surviving nodes, reduced graph, bound table
    S, DLA_done, path, label,           \* GSSA: visit-once list, loop flag, last GLSA result
    paths, labels, L,                   \* GLSA: per-node paths and labels, pending set
    u, l, todo,                         \* GLSA: selected label (u, l), successors of u still to treat
    v_label, v_path, i_label, n_labels, \* GLSA: candidate of the edge in hand, removal loop counters
    iters,                              \* number of GLSA invocations made by GSSA so far
    n_popped,                           \* labels the removal loop has popped for the candidate in hand
    first_cost,                         \* <<cost>> returned by an earlier run on the same inputs
    da, db, dc, dom                     \* three labels handed to _is_dominated, and its answers

vars == <<G, source, target, max_res, pc, err, reachable_nodes, H, res_min,
          S, DLA_done, path, label, paths, labels, L, u, l, todo,
          v_label, v_path, i_label, n_labels, iters, n_popped, first_cost,
          da, db, dc, dom>>

solverVars == <<G, source, target, max_res, pc, err, reachable_nodes, H, res_min,
                S, DLA_done, path, label, paths, labels, L, u, l, todo,
                v_label, v_path, i_label, n_labels, iters, n_popped, first_cost>>

(***************************************************************************)
(* Bounds of the model.                                                    *)
(***************************************************************************)
\* budgets 0..MaxBudget are tried on the graph families
MaxBudget == 5
\* a candidate whose path would hold more nodes than this is not followed
MaxPathLen == 8
\* labels handed to _is_dominated: costs -MaxDomVal..MaxDomVal, resources 0..MaxDomVal
MaxDomVal == 1

Nodes == {"A", "B", "C", "D", "E"}

Min(X) == CHOOSE x \in X : \A y \in X : x <= y
Max(X) == CHOOSE x \in X : \A y \in X : x >= y
Range(s) == {s[i] : i \in 1..Len(s)}
Last(s) == s[Len(s)]

(***************************************************************************)
(* Input graphs: a networkx DiGraph with graph attribute n_res and edge    *)
(* attributes weight and res_cost.                                         *)
(***************************************************************************)
Edge(x, y, w, rc) == [u |-> x, v |-> y, weight |-> w, res_cost |-> rc]

\* spec.md, section 8: the 4-node scenario
ScenarioEdges ==
    { Edge("A", "B", 1, <<1>>), Edge("B", "C", 1, <<1>>),
      Edge("A", "C", 5, <<1>>), Edge("C", "D", 1, <<1>>) }
ScenarioGraph == [nodes |-> {"A", "B", "C", "D"}, n_res |-> 1, edges |-> ScenarioEdges]

\* spec.md, section 8: the scenario with the cycle B -> A added
CycleScenarioGraph ==
    [nodes |-> {"A", "B", "C", "D"}, n_res |-> 1,
     edges |-> ScenarioEdges \cup {Edge("B", "A", -10, <<1>>)}]

\* two negative-cost cycles B <-> C and C <-> E off the source
TwoCyclesGraph ==
    [nodes |-> {"A", "B", "C", "D", "E"}, n_res |-> 1,
     edges |-> { Edge("A", "B", 1, <<1>>), Edge("B", "C", 1, <<1>>),
                 Edge("C", "B", -3, <<1>>), Edge("C", "E", -1, <<1>>),
                 Edge("E", "C", -1, <<1>>), Edge("C", "D", 1, <<1>>) }]

\* two resources, two routes that each spare one of them
TwoResGraph ==
    [nodes |-> {"A", "B", "C", "D"}, n_res |-> 2,
     edges |-> { Edge("A", "B", 1, <<1, 2>>), Edge("B", "D", 1, <<0, 3>>),
                 Edge("A", "C", 2, <<2, 1>>), Edge("C", "D", 2, <<3, 0>>) }]

\* a negative-cost self-loop at C, reached by two incomparable labels
SelfLoopGraph ==
    [nodes |-> {"A", "B", "C", "D", "E"}, n_res |-> 1,
     edges |-> { Edge("A", "C", -1, <<1>>), Edge("A", "B", 0, <<0>>),
                 Edge("B", "C", 0, <<0>>), Edge("C", "C", -5, <<1>>),
                 Edge("C", "D", -100, <<3>>), Edge("C", "E", 1000, <<0>>),
                 Edge("E", "D", 0, <<1>>), Edge("A", "D", 0, <<0>>) }]

\* a negative-cost self-loop at C, reached by three incomparable labels; every edge
\* consumes the resource
SelfLoopCrashGraph ==
    [nodes |-> {"A", "B", "C", "D", "E"}, n_res |-> 1,
     edges |-> { Edge("A", "C", -1, <<3>>), Edge("A", "B", 0, <<1>>),
                 Edge("B", "C", -2, <<3>>), Edge("A", "E", 0, <<1>>),
                 Edge("E", "C", 0, <<1>>), Edge("C", "C", -5, <<1>>),
                 Edge("C", "D", 0, <<1>>) }]

\* a cycle B <-> C that consumes no resource
ZeroResGraph ==
    [nodes |-> {"A", "B", "C", "D"}, n_res |-> 1,
     edges |-> { Edge("A", "B", 1, <<1>>), Edge("B", "C", -1, <<0>>),
                 Edge("C", "B", -1, <<0>>), Edge("C", "D", 1, <<1>>) }]

\* a negative-cost cycle B <-> C, and a node E from which the target is nearer than B
StrongDomGraph ==
    [nodes |-> {"A", "B", "C", "D", "E"}, n_res |-> 1,
     edges |-> { Edge("A", "B", 1, <<1>>), Edge("B", "C", 1, <<1>>),
                 Edge("C", "B", -3, <<1>>), Edge("C", "D", 1, <<1>>),
                 Edge("A", "E", 5, <<1>>), Edge("E", "D", 5, <<1>>),
                 Edge("E", "B", 0, <<5>>) }]

\* SelfLoopGraph without the edge A -> D: every path to the target passes C
SelfLoopOnlyGraph ==
    [nodes |-> {"A", "B", "C", "D", "E"}, n_res |-> 1,
     edges |-> SelfLoopGraph.edges \ {Edge("A", "D", 0, <<0>>)}]

\* two routes to C; the one over B is cheaper in cost and in resource
DiamondGraph ==
    [nodes |-> {"A", "B", "C", "D"}, n_res |-> 1,
     edges |-> { Edge("A", "B", 0, <<1>>), Edge("A", "C", 5, <<3>>),
                 Edge("B", "C", 1, <<1>>), Edge("C", "D", 1, <<1>>) }]

Budgets1 == {<<m>> : m \in 0..MaxBudget}
Budgets2 == {<<m, n>> : m \in 0..MaxBudget, n \in 0..MaxBudget}

Instances ==
    { [G |-> ScenarioGraph,      source |-> "A", target |-> "D", max_res |-> <<10>>],
      [G |-> CycleScenarioGraph, source |-> "A", target |-> "D", max_res |-> <<100>>],
      [G |-> SelfLoopGraph,      source |-> "A", target |-> "D", max_res |-> <<3>>],
      [G |-> SelfLoopCrashGraph, source |-> "A", target |-> "D", max_res |-> <<5>>],
      [G |-> ZeroResGraph,       source |-> "A", target |-> "D", max_res |-> <<2>>],
      [G |-> StrongDomGraph,     source |-> "A", target |-> "D", max_res |-> <<5>>],
      [G |-> SelfLoopOnlyGraph,  source |-> "A", target |-> "D", max_res |-> <<3>>],
      [G |-> DiamondGraph,       source |-> "A", target |-> "D", max_res |-> <<4>>] }
    \cup {[G |-> ScenarioGraph,  source |-> "A", target |-> "D", max_res |-> m] : m \in Budgets1}
    \cup {[G |-> TwoCyclesGraph, source |-> "A", target |-> "D", max_res |-> m] : m \in Budgets1}
    \cup {[G |-> TwoResGraph,    source |-> "A", target |-> "D", max_res |-> m] : m \in Budgets2}

has_edge(Gr, x, y) == \E e \in Gr.edges : e.u = x /\ e.v = y
get_edge_data(Gr, x, y) == CHOOSE e \in Gr.edges : e.u = x /\ e.v = y
reverse(edges) == {Edge(e.v, e.u, e.weight, e.res_cost) : e \in edges}

(***************************************************************************)
(* networkx's Dijkstra path lengths with edge weight _res_cost_i, i.e.     *)
(* res_cost[res]: a function from the nodes reached to their least         *)
(* consumption of resource res.                                            *)
(***************************************************************************)
res_cost_i(e, res) == e.res_cost[res]

RelaxDist(edges, res, d) ==
    LET into(n) == {d[e.u] + res_cost_i(e, res) : e \in {x \in edges : x.u \in DOMAIN d /\ x.v = n}}
        cand(n) == into(n) \cup (IF n \in DOMAIN d THEN {d[n]} ELSE {})
        reached == {n \in Nodes : cand(n) # {}}
    IN  [n \in reached |-> Min(cand(n))]

RECURSIVE IterateDist(_, _, _, _)
IterateDist(edges, res, d, k) ==
    IF k = 0 THEN d ELSE IterateDist(edges, res, RelaxDist(edges, res, d), k - 1)

dijkstra_path_length(edges, src, res) ==
    IterateDist(edges, res, [n \in {src} |-> 0], Cardinality(Nodes))

\* with a cutoff: the nodes whose least consumption is within it (the start node always)
single_source_dijkstra_path_length(edges, src, cutoff, res) ==
    LET d == dijkstra_path_length(edges, src, res)
    IN  {n \in DOMAIN d : d[n] <= cutoff} \cup {src}

(***************************************************************************)
(* preprocess_ESPPRC                                                       *)
(***************************************************************************)
\* lines 50-64: the loop over the resources; ok is FALSE when the loop reaches
\* reachable_nodes.append, which a set does not have (AttributeError)
RECURSIVE delete_unreachable(_, _, _, _, _, _)
delete_unreachable(Gr, src, tgt, mr, res, reach) ==
    IF res > Gr.n_res THEN [ok |-> TRUE, nodes |-> reach]
    ELSE LET fwd == single_source_dijkstra_path_length(Gr.edges, src, mr[res], res)
             r1 == reach \cap fwd
         IN  IF src \notin r1 THEN [ok |-> FALSE, nodes |-> r1]
             ELSE LET bwd == single_source_dijkstra_path_length(reverse(Gr.edges), tgt, mr[res], res)
                      r2 == r1 \cap bwd
                  IN  IF tgt \notin r2 THEN [ok |-> FALSE, nodes |-> r2]
                      ELSE delete_unreachable(Gr, src, tgt, mr, res + 1, r2)

\* the orders in which a Python set may be iterated
RECURSIVE Orders(_)
Orders(X) ==
    IF X = {} THEN {<<>>}
    ELSE UNION {{<<x>> \o s : s \in Orders(X \ {x})} : x \in X}

\* lines 72-78: the reduced graph, built by add_edge while iterating reachable_nodes
\* twice in the order `order`; succ[n] lists n's successors in insertion order
reduced_graph(Gr, order) ==
    LET reach == Range(order)
        kept == {e \in Gr.edges : e.u \in reach /\ e.v \in reach}
        hn == {e.u : e \in kept} \cup {e.v : e \in kept}
    IN  [nodes |-> hn,
         n_res |-> Gr.n_res,
         edges |-> kept,
         succ  |-> [n \in hn |-> LET child(n2) == has_edge(Gr, n, n2) IN SelectSeq(order, child)]]

\* lines 84-88: all-pairs least consumption on the reduced graph, one table per resource
least_resource_pairs(Hr) ==
    [res \in 1..Hr.n_res |-> [n \in Hr.nodes |-> dijkstra_path_length(Hr.edges, n, res)]]

\* dict.get(key, default)
Get(d, key, default) == IF key \in DOMAIN d THEN d[key] ELSE default

(***************************************************************************)
(* _is_dominated(a, b): whether label a is dominated by label b            *)
(***************************************************************************)
\* the test for identical labels left out
is_dominated_no_identity(a, b) ==
    /\ ~(a[1] < b[1])
    /\ ~(\E i \in 1..Len(a[2]) : a[2][i] < b[2][i])

is_dominated(a, b) ==
    IF a[1] = b[1] /\ (\A i \in 1..Len(a[2]) : a[2][i] = b[2][i])
    THEN FALSE
    ELSE /\ ~(a[1] < b[1])
         /\ ~(\E i \in 1..Len(a[2]) : a[2][i] < b[2][i])

(***************************************************************************)
(* GLSA                                                                    *)
(***************************************************************************)
n_res == G.n_res
zeros(n) == [i \in 1..n |-> 0]
\* list.index: the first position of n in Sq (1-based here)
index(Sq, n) == Min({i \in 1..Len(Sq) : Sq[i] = n})

\* lines 105-111: the state a GLSA invocation starts from, for the visit-once list Sq
initial_paths == [n \in Nodes |-> IF n = source THEN << <<source>> >> ELSE <<>>]
\* the labels at the target kept from the invocation before (padded to the new length)
initial_labels_keep_target(Sq) ==
    [n \in Nodes |->
        IF n = source THEN << <<0, zeros(n_res + Len(Sq))>> >>
        ELSE IF n = target
             THEN [k \in 1..Len(labels[n]) |-> <<labels[n][k][1], labels[n][k][2] \o <<0>>>>]
             ELSE <<>>]

initial_labels(Sq) ==
    [n \in Nodes |-> IF n = source THEN << <<0, zeros(n_res + Len(Sq))>> >> ELSE <<>>]
initial_L == {<<source, 0>>}

\* lines 120-128: one pass over the candidates `prev` for resource `res`; the running
\* minimum res_LML starts at inf, so the first candidate is always taken
RECURSIVE scan_LML(_, _, _, _, _)
scan_LML(prev, res, i, res_LML, this) ==
    IF i > Len(prev) THEN this
    ELSE LET res_loc == labels[prev[i][1]][prev[i][2] + 1][2][res]
         IN  IF this = <<>> \/ res_loc <= res_LML
             THEN scan_LML(prev, res, i + 1, res_loc, Append(this, prev[i]))
             ELSE scan_LML(prev, res, i + 1, res_LML, this)

\* lines 118-138: the label chosen when L is iterated in the order `prev`
RECURSIVE select_LML(_, _)
select_LML(prev, res) ==
    LET LML_for_this_res == scan_LML(prev, res, 1, 0, <<>>)
    IN  IF Len(LML_for_this_res) = 1 \/ res >= n_res + Len(S)
        THEN LML_for_this_res[1]
        ELSE select_LML(LML_for_this_res, res + 1)

\* the test of line 152 left out
source_is_child_never(y) == FALSE

\* line 152: the child is the source
source_is_child(y) == y = source

\* lines 157-161: the label of (u, l) extended over the edge x -> y
extend_label(lab, x, y) ==
    LET e == get_edge_data(H, x, y)
        e_loc == [i \in 1..(n_res + Len(S)) |->
                    IF i <= n_res THEN e.res_cost[i]
                    ELSE IF y \in Range(S) /\ i = n_res + index(S, y) THEN 1 ELSE 0]
    IN  <<lab[1] + e.weight, [i \in 1..(n_res + Len(S)) |-> lab[2][i] + e_loc[i]]>>

\* the candidate's own consumption left out of the test
edge_resources_ok_bound_only(vl, y) ==
    \A res \in 1..n_res : ~(Get(res_min[res][y], target, 0) > max_res[res])

\* lines 165-169: the candidate can still reach the target within every budget
edge_resources_ok(vl, y) ==
    \A res \in 1..n_res : ~(vl[2][res] + Get(res_min[res][y], target, 0) > max_res[res])

\* lines 172-176: no node of S is used twice
node_resources_ok(vl) ==
    \A res \in 1..Len(S) : ~(vl[2][n_res + res] > 1)

\* the candidate is never found dominated
label_dominated_never(vl, y) == FALSE

\* lines 181-185: the candidate is dominated by a label already at y
label_dominated(vl, y) ==
    \E i \in 1..Len(labels[y]) : is_dominated(vl, labels[y][i])

\* lines 201-206: strong dominance; the bound read is res_min[res][n].get(n, 0.0)
strong_dominance(vl) ==
    LET hit(n) == \E res \in 1..n_res : vl[2][res] + Get(res_min[res][n], n, 0) > max_res[res]
    IN  <<vl[1], [i \in 1..Len(vl[2]) |->
                    IF /\ i > n_res
                       /\ \E n \in Range(S) : i = n_res + index(S, n) /\ hit(n)
                       /\ vl[2][i] = 0
                    THEN 1 ELSE vl[2][i]]>>

\* list.pop(i) for a 0-based i
pop(s, i) == [k \in 1..(Len(s) - 1) |-> IF k <= i THEN s[k] ELSE s[k + 1]]

\* the pending entries behind the popped label keep their numbers
rename_L_no_shift(Lset, y, i, newlen) == Lset \ {<<y, i>>}

\* lines 220-227: L after the label (y, i) was popped and newlen labels are left at y
rename_L(Lset, y, i, newlen) ==
    LET moved == {e \in Lset : e[1] = y /\ e[2] \in (i + 1)..newlen}
    IN  ((Lset \ {<<y, i>>}) \ moved) \cup {<<y, e[2] - 1>> : e \in moved}

\* the comparison of line 249 turned round
RECURSIVE cheapest_reversed(_, _, _)
cheapest_reversed(labs, p, best) ==
    IF p > Len(labs) THEN best
    ELSE IF best = 0 \/ labs[p][1] > labs[best][1]
         THEN cheapest_reversed(labs, p + 1, p)
         ELSE cheapest_reversed(labs, p + 1, best)

\* lines 247-252: position of the first label of least cost (0: none seen, least_cost = inf)
RECURSIVE cheapest(_, _, _)
cheapest(labs, p, best) ==
    IF p > Len(labs) THEN best
    ELSE IF best = 0 \/ labs[p][1] < labs[best][1]
         THEN cheapest(labs, p + 1, p)
         ELSE cheapest(labs, p + 1, best)

(***************************************************************************)
(* GSSA                                                                    *)
(***************************************************************************)
\* path_tools.count_elems: the multiplicity of every node of the path
count_elems(p) == [n \in Range(p) |-> Cardinality({i \in 1..Len(p) : p[i] = n})]
\* line 271
path_max_mult(p) == Max({count_elems(p)[n] : n \in Range(p)})
\* a node met twice taken for elementary
is_elementary_upto_two(p) == path_max_mult(p) <= 2

\* line 272
is_elementary(p) == path_max_mult(p) = 1
\* any node of the path taken for a most repeated one
nodes_max_mult_any(p) == Range(p)

\* line 278: the keys of greatest multiplicity; max() takes the first of them it meets
nodes_max_mult(p) == {n \in Range(p) : count_elems(p)[n] = path_max_mult(p)}

(***************************************************************************)
(* The state machine                                                       *)
(***************************************************************************)
NoLabel == <<0, <<>>>>
NoGraph == [nodes |-> {}, n_res |-> 0, edges |-> {}, succ |-> <<>>]

DomIdle == da = NoLabel /\ db = NoLabel /\ dc = NoLabel /\ dom = <<>>

Init ==
    /\ \E inst \in Instances :
          /\ G = inst.G
          /\ source = inst.source
          /\ target = inst.target
          /\ max_res = inst.max_res
    /\ pc = "start" /\ err = "none"
    /\ reachable_nodes = {} /\ H = NoGraph /\ res_min = <<>>
    /\ S = <<>> /\ DLA_done = FALSE /\ path = <<>> /\ label = NoLabel
    /\ paths = [n \in Nodes |-> <<>>] /\ labels = [n \in Nodes |-> <<>>] /\ L = {}
    /\ u = "none" /\ l = 0 /\ todo = <<>>
    /\ v_label = NoLabel /\ v_path = <<>> /\ i_label = 0 /\ n_labels = 0
    /\ iters = 0 /\ n_popped = 0 /\ first_cost = <<>>
    /\ DomIdle

glsaVars == <<paths, labels, L, u, l, todo, v_label, v_path, i_label, n_labels, n_popped>>
inputVars == <<G, source, target, max_res>>
domVars == <<da, db, dc, dom>>

\* the caller's H, res_min = preprocess_ESPPRC(G, source, target, max_res)
Preprocess ==
    /\ pc = "start"
    /\ LET r == delete_unreachable(G, source, target, max_res, 1, G.nodes)
       IN  /\ reachable_nodes' = r.nodes
           /\ IF ~r.ok
              THEN /\ pc' = "crash"
                   /\ err' = "AttributeError"
                   /\ UNCHANGED <<H, res_min>>
              ELSE \E order \in Orders(r.nodes) :
                     LET Hr == reduced_graph(G, order)
                     IN  /\ H' = Hr
                         /\ res_min' = least_resource_pairs(Hr)
                         /\ pc' = "gssa"
                         /\ UNCHANGED err
    /\ UNCHANGED <<inputVars, S, DLA_done, path, label, glsaVars, iters, domVars, first_cost>>

\* lines 263-268: GSSA starts with S empty and calls GLSA (lines 101-111)
GSSA_Start ==
    /\ pc = "gssa"
    /\ S' = <<>>
    /\ DLA_done' = FALSE
    /\ paths' = initial_paths
    /\ labels' = initial_labels(<<>>)
    /\ L' = initial_L
    /\ iters' = 1
    /\ pc' = "loop"
    /\ UNCHANGED <<inputVars, err, reachable_nodes, H, res_min, path, label,
                   u, l, todo, v_label, v_path, i_label, n_labels, n_popped, domVars, first_cost>>

\* lines 115-139 and 145: take a label out of L and start on the successors of its node
GLSA_Select ==
    /\ pc = "loop"
    /\ L # {}
    /\ \E LML_for_prev_res \in Orders(L) :
          LET u_label == select_LML(LML_for_prev_res, 1)
          IN  /\ L' = L \ {u_label}
              /\ u' = u_label[1]
              /\ l' = u_label[2]
              /\ IF u_label[1] \notin H.nodes
                 THEN /\ pc' = "crash"
                      /\ err' = "KeyError"
                      /\ todo' = <<>>
                 ELSE /\ todo' = H.succ[u_label[1]]
                      /\ pc' = IF H.succ[u_label[1]] = <<>> THEN "loop" ELSE "extend"
                      /\ UNCHANGED err
    /\ UNCHANGED <<inputVars, reachable_nodes, H, res_min, S, DLA_done, path, label,
                   paths, labels, v_label, v_path, i_label, n_labels, n_popped, iters, domVars,
                   first_cost>>

\* the for loop of line 145 moves to the next successor, or the while loop to its test
next_edge ==
    /\ todo' = Tail(todo)
    /\ pc' = IF Tail(todo) = <<>> THEN "loop" ELSE "extend"
    /\ v_label' = NoLabel /\ v_path' = <<>> /\ i_label' = 0 /\ n_labels' = 0
    /\ n_popped' = 0

\* lines 145-206: the edge u -> Head(todo) up to the candidate that survives
GLSA_Relax ==
    /\ pc = "extend"
    /\ LET v == Head(todo)
       IN  IF source_is_child(v)
           THEN /\ pc' = "quit"
                /\ err' = "SystemExit"
                /\ UNCHANGED <<todo, v_label, v_path, i_label, n_labels, n_popped>>
           ELSE IF l >= Len(labels[u])
           THEN /\ pc' = "crash"
                /\ err' = "IndexError"
                /\ UNCHANGED <<todo, v_label, v_path, i_label, n_labels, n_popped>>
           ELSE LET cand == extend_label(labels[u][l + 1], u, v)
                    add_label == edge_resources_ok(cand, v) /\ node_resources_ok(cand)
                IN  IF ~add_label \/ label_dominated(cand, v)
                    THEN next_edge /\ UNCHANGED err
                    ELSE /\ Len(paths[u][l + 1]) < MaxPathLen
                         /\ v_path' = Append(paths[u][l + 1], v)
                         /\ v_label' = strong_dominance(cand)
                         /\ i_label' = 0
                         /\ n_labels' = Len(labels[v])
                         /\ n_popped' = 0
                         /\ pc' = "remove"
                         /\ UNCHANGED <<todo, err>>
    /\ UNCHANGED <<inputVars, reachable_nodes, H, res_min, S, DLA_done, path, label,
                   paths, labels, L, u, l, iters, domVars, first_cost>>

\* lines 214-230: one turn of the loop that removes the labels the candidate dominates
GLSA_Remove ==
    /\ pc = "remove"
    /\ i_label < n_labels
    /\ LET v == Head(todo)
       IN  IF is_dominated(labels[v][i_label + 1], v_label)
           THEN /\ labels' = [labels EXCEPT ![v] = pop(labels[v], i_label)]
                /\ paths' = [paths EXCEPT ![v] = pop(paths[v], i_label)]
                /\ L' = rename_L(L, v, i_label, Len(labels[v]) - 1)
                /\ n_labels' = n_labels - 1
                /\ n_popped' = n_popped + 1
                /\ UNCHANGED i_label
           ELSE /\ i_label' = i_label + 1
                /\ UNCHANGED <<labels, paths, L, n_labels, n_popped>>
    /\ UNCHANGED <<inputVars, pc, err, reachable_nodes, H, res_min, S, DLA_done, path, label,
                   u, l, todo, v_label, v_path, iters, domVars, first_cost>>

\* lines 232-237: the candidate is stored and becomes pending
GLSA_Insert ==
    /\ pc = "remove"
    /\ i_label >= n_labels
    /\ LET v == Head(todo)
       IN  /\ paths' = [paths EXCEPT ![v] = Append(paths[v], v_path)]
           /\ labels' = [labels EXCEPT ![v] = Append(labels[v], v_label)]
           /\ L' = L \cup {<<v, Len(labels[v])>>}
    /\ next_edge
    /\ UNCHANGED <<inputVars, err, reachable_nodes, H, res_min, S, DLA_done, path, label,
                   u, l, iters, domVars, first_cost>>

\* lines 243-253: L is empty; the cheapest label at the target is returned to GSSA
GLSA_Return ==
    /\ pc = "loop"
    /\ L = {}
    /\ IF labels[target] = <<>>
       THEN /\ pc' = "crash"
            /\ err' = "KeyError"
            /\ UNCHANGED <<path, label>>
       ELSE LET p == cheapest(labels[target], 1, 0)
            IN  /\ path' = paths[target][p]
                /\ label' = labels[target][p]
                /\ pc' = "check"
                /\ UNCHANGED err
    /\ UNCHANGED <<inputVars, reachable_nodes, H, res_min, S, DLA_done, glsaVars, iters, domVars, first_cost>>

\* lines 270-275: the result is elementary and GSSA returns it
GSSA_Done ==
    /\ pc = "check"
    /\ is_elementary(path)
    /\ DLA_done' = TRUE
    /\ pc' = "done"
    /\ UNCHANGED <<inputVars, err, reachable_nodes, H, res_min, S, path, label, glsaVars,
                   iters, domVars, first_cost>>

\* lines 276-283 and 268: a most repeated node joins S and GLSA is run again
GSSA_Augment ==
    /\ pc = "check"
    /\ ~is_elementary(path)
    /\ \E node_max_mult \in nodes_max_mult(path) :
          /\ S' = Append(S, node_max_mult)
          /\ labels' = initial_labels(S')
    /\ paths' = initial_paths
    /\ L' = initial_L
    /\ iters' = iters + 1
    /\ pc' = "loop"
    /\ UNCHANGED <<inputVars, err, reachable_nodes, H, res_min, DLA_done, path, label,
                   u, l, todo, v_label, v_path, i_label, n_labels, n_popped, domVars, first_cost>>

\* the caller runs the solver once more on the unchanged graph and budgets; the cost
\* of the first run is kept for comparison
Rerun ==
    /\ pc = "done"
    /\ first_cost = <<>>
    /\ first_cost' = <<label[1]>>
    /\ pc' = "start"
    /\ reachable_nodes' = {} /\ H' = NoGraph /\ res_min' = <<>>
    /\ S' = <<>> /\ DLA_done' = FALSE /\ path' = <<>> /\ label' = NoLabel
    /\ paths' = [n \in Nodes |-> <<>>] /\ labels' = [n \in Nodes |-> <<>>] /\ L' = {}
    /\ u' = "none" /\ l' = 0 /\ todo' = <<>>
    /\ v_label' = NoLabel /\ v_path' = <<>> /\ i_label' = 0 /\ n_labels' = 0
    /\ iters' = 0 /\ n_popped' = 0
    /\ UNCHANGED <<inputVars, err, domVars>>

\* GSSA on the output of preprocess_ESPPRC
Search ==
    \/ GSSA_Start
    \/ GLSA_Select
    \/ GLSA_Relax
    \/ GLSA_Remove
    \/ GLSA_Insert
    \/ GLSA_Return
    \/ GSSA_Done
    \/ GSSA_Augment

Next ==
    \/ Preprocess
    \/ Search

\* the program can take a step (Preprocess has no guard but pc = "start")
CanStep == pc = "start" \/ ENABLED Search

Spec == Init /\ [][Next]_vars

(***************************************************************************)
(* The solver run twice on the same inputs, on the two graphs with the     *)
(* self-loop at C.                                                         *)
(***************************************************************************)
InitRerun == Init /\ G \in {SelfLoopGraph, SelfLoopOnlyGraph}

NextRerun ==
    \/ Preprocess
    \/ Search
    \/ Rerun

SpecRerun == InitRerun /\ [][NextRerun]_vars

(***************************************************************************)
(* _is_dominated on its own: three labels of equal length are drawn, and   *)
(* the function is applied to their pairs.                                 *)
(***************************************************************************)
DomLabels(dim) ==
    {<<cost, r>> : cost \in (0 - MaxDomVal)..MaxDomVal, r \in [1..dim -> 0..MaxDomVal]}

InitDom ==
    /\ G = ScenarioGraph /\ source = "A" /\ target = "D" /\ max_res = <<10>>
    /\ pc = "dominance" /\ err = "none"
    /\ reachable_nodes = {} /\ H = NoGraph /\ res_min = <<>>
    /\ S = <<>> /\ DLA_done = FALSE /\ path = <<>> /\ label = NoLabel
    /\ paths = [n \in Nodes |-> <<>>] /\ labels = [n \in Nodes |-> <<>>] /\ L = {}
    /\ u = "none" /\ l = 0 /\ todo = <<>>
    /\ v_label = NoLabel /\ v_path = <<>> /\ i_label = 0 /\ n_labels = 0
    /\ iters = 0 /\ n_popped = 0 /\ first_cost = <<>>
    /\ \E dim \in {1, 2} :
          /\ da \in DomLabels(dim)
          /\ db \in DomLabels(dim)
          /\ dc \in DomLabels(dim)
    /\ dom = <<>>

Dominance ==
    /\ pc = "dominance"
    /\ dom = <<>>
    /\ dom' = [aa |-> is_dominated(da, da), ab |-> is_dominated(da, db),
               ba |-> is_dominated(db, da), bc |-> is_dominated(db, dc),
               ac |-> is_dominated(da, dc)]
    /\ UNCHANGED <<solverVars, da, db, dc>>

NextDom == Dominance

SpecDom == InitDom /\ [][NextDom]_vars

(***************************************************************************)
(* What the properties speak of                                            *)
(***************************************************************************)
\* the elementary paths of Gr that start with p and end at tgt
RECURSIVE ElementaryPathsFrom(_, _, _)
ElementaryPathsFrom(Gr, p, tgt) ==
    IF Last(p) = tgt THEN {p}
    ELSE UNION {ElementaryPathsFrom(Gr, Append(p, e.v), tgt) :
                    e \in {x \in Gr.edges : x.u = Last(p) /\ x.v \notin Range(p)}}

RECURSIVE PathCost(_, _)
PathCost(Gr, p) ==
    IF Len(p) <= 1 THEN 0
    ELSE get_edge_data(Gr, p[1], p[2]).weight + PathCost(Gr, Tail(p))

RECURSIVE PathRes(_, _, _)
PathRes(Gr, p, res) ==
    IF Len(p) <= 1 THEN 0
    ELSE get_edge_data(Gr, p[1], p[2]).res_cost[res] + PathRes(Gr, Tail(p), res)

WithinBudget(p) == \A res \in 1..n_res : PathRes(G, p, res) <= max_res[res]
FeasiblePaths == {p \in ElementaryPathsFrom(G, <<source>>, target) : WithinBudget(p)}
OptimalCost == Min({PathCost(G, p) : p \in FeasiblePaths})
NoEdgeIntoSource == \A e \in G.edges : e.v # source
NonNegativeResources == \A e \in G.edges : \A res \in 1..n_res : e.res_cost[res] >= 0
FollowsEdges(Gr, p) == \A i \in 1..(Len(p) - 1) : has_edge(Gr, p[i], p[i + 1])
NoRepeatedNode(p) == \A i, j \in 1..Len(p) : i # j => p[i] # p[j]
Solving == pc \notin {"dominance"}
Returned == pc = "done"
InGLSA == pc \in {"loop", "extend", "remove"}

(***************************************************************************)
(* C1. On a graph with non-negative resource costs, no edge into the       *)
(* source and an elementary source-to-target path within the budgets, the  *)
(* path GSSA returns costs the minimum over all such paths.                *)
(* Violated: on SelfLoopGraph GSSA returns [A, D] of cost 0 although       *)
(* [A, B, C, D] costs -100.                                                *)
(***************************************************************************)
C1_ReturnsOptimalCost ==
    (Returned /\ NonNegativeResources /\ NoEdgeIntoSource /\ FeasiblePaths # {})
        => label[1] = OptimalCost

(***************************************************************************)
(* C2. Every label stored at a node during a search, and the label GLSA    *)
(* and GSSA return, holds in its first n_res entries the sum of res_cost   *)
(* over the edges of its path, and that sum is within max_res.             *)
(***************************************************************************)
PhysicalWithinBudget(lab, p) ==
    \A res \in 1..n_res :
        /\ lab[2][res] = PathRes(G, p, res)
        /\ lab[2][res] <= max_res[res]

C2_ResourcesWithinBudget ==
    Solving =>
        /\ \A n \in Nodes :
              /\ Len(labels[n]) = Len(paths[n])
              /\ \A i \in 1..Len(labels[n]) : PhysicalWithinBudget(labels[n][i], paths[n][i])
        /\ pc \in {"check", "done"} => PhysicalWithinBudget(label, path)

\* a path was returned that uses a budget to the full
C2_Witness ==
    /\ Returned
    /\ Len(path) > 2
    /\ label[2][1] = max_res[1]

(***************************************************************************)
(* C3. The path GSSA returns starts at source, ends at target, follows     *)
(* edges of the graph and holds no node twice.                             *)
(***************************************************************************)
C3_ReturnedPathElementary ==
    Returned =>
        /\ path[1] = source
        /\ Last(path) = target
        /\ FollowsEdges(G, path)
        /\ NoRepeatedNode(path)

\* GSSA returned after a result with a repeated node made it augment S
C3_Witness ==
    /\ Returned
    /\ Len(S) >= 1
    /\ iters >= 2

(***************************************************************************)
(* C4. When no source-to-target path fits within max_res the solver does   *)
(* not end in an unhandled error and returns no path: it reports that      *)
(* there is no feasible path.                                              *)
(* Violated: preprocess_ESPPRC raises AttributeError (ScenarioGraph with   *)
(* max_res = [0]), GLSA raises KeyError.                                   *)
(***************************************************************************)
C4_InfeasibleIsReported ==
    (Solving /\ FeasiblePaths = {}) => pc \notin {"crash", "done"}

(***************************************************************************)
(* C5. When GLSA considers an edge whose head is the source it stops in    *)
(* the fatal error state: nothing is stored, nothing is returned from that *)
(* invocation, the run does not go on, and the source only ever holds its  *)
(* initial zero label.                                                     *)
(***************************************************************************)
C5_SourceChildIsFatal ==
    /\ [](InGLSA => labels[source] = << <<0, zeros(n_res + Len(S))>> >>)
    /\ [](pc = "quit" => ~CanStep)
    /\ [][(pc = "extend" /\ Head(todo) = source)
            => (pc' = "quit" /\ UNCHANGED <<labels, paths, L, path, label, S>>)]_vars

\* the search stopped at an edge into the source
C5_Witness ==
    /\ pc = "quit"
    /\ err = "SystemExit"
    /\ Head(todo) = source
    /\ has_edge(H, u, source)

(***************************************************************************)
(* C6. On the 4-node scenario with max_res = [10] the solver returns       *)
(* [A, B, C, D] with cost 3 whatever order the pending labels and the      *)
(* nodes are iterated in: it never ends in an error, and it can go on      *)
(* until it has returned.                                                  *)
(***************************************************************************)
IsScenario == G = ScenarioGraph /\ max_res = <<10>> /\ source = "A" /\ target = "D" /\ Solving

C6_ScenarioResult ==
    IsScenario =>
        /\ pc \notin {"crash", "quit"}
        /\ Returned => (path = <<"A", "B", "C", "D">> /\ label[1] = 3)
        /\ ~Returned => CanStep

C6_Witness ==
    /\ IsScenario
    /\ Returned
    /\ path = <<"A", "B", "C", "D">>

(***************************************************************************)
(* C7. On the scenario with the edge B -> A (cost -10) and max_res = [100] *)
(* the claim has the augmentation loop return an elementary path.          *)
(* C7_Original: the run has returned or can go on.  It is violated: the    *)
(* run ends in GLSA's quit() at the edge B -> A.                           *)
(* C7_CycleScenarioQuits (amended): the first GLSA invocation ends in the  *)
(* fatal "source cannot be a child" state when the label at B is extended  *)
(* over B -> A; no result is ever inspected, S stays empty, no label is    *)
(* stored at the source besides the initial one, nothing is returned, and  *)
(* the run stops nowhere else.                                             *)
(***************************************************************************)
IsCycleScenario == G = CycleScenarioGraph /\ max_res = <<100>> /\ source = "A" /\ target = "D"

C7_Original ==
    IsCycleScenario => (Returned \/ CanStep)

C7_CycleScenarioQuits ==
    IsCycleScenario =>
        /\ pc \notin {"check", "done", "crash"}
        /\ S = <<>>
        /\ iters <= 1
        /\ path = <<>>
        /\ InGLSA => Len(labels[source]) = 1
        /\ pc = "quit" => (u = "B" /\ Head(todo) = "A" /\ err = "SystemExit")
        /\ ~CanStep => pc = "quit"

C7_Witness ==
    /\ IsCycleScenario
    /\ pc = "quit"
    /\ u = "B"
    /\ S = <<>>

(***************************************************************************)
(* C8. On a graph with non-negative (possibly zero) resource costs, no     *)
(* edge into the source and a feasible path, GSSA returns: until it has,   *)
(* it can take a further step, and it calls GLSA at most once per node.    *)
(* Violated: on ZeroResGraph the labels of the cycle B <-> C get cheaper   *)
(* for ever (the model follows them up to MaxPathLen nodes); on            *)
(* SelfLoopCrashGraph GLSA raises IndexError.                              *)
(***************************************************************************)
C8_GSSAReturns ==
    (Solving /\ NonNegativeResources /\ NoEdgeIntoSource /\ FeasiblePaths # {})
        => /\ Returned \/ CanStep
           /\ iters <= Cardinality(G.nodes)

(***************************************************************************)
(* C9. preprocess_ESPPRC completes on every input, and source and target   *)
(* are among the surviving nodes.                                          *)
(* Violated: when the target is beyond a budget the function ends in       *)
(* AttributeError at reachable_nodes.append (ScenarioGraph, max_res = [0]).*)
(***************************************************************************)
C9_PreprocessKeepsEndpoints ==
    (Solving /\ pc # "start") =>
        /\ err # "AttributeError"
        /\ source \in reachable_nodes
        /\ target \in reachable_nodes

(***************************************************************************)
(* C10. "a is dominated by b" is a strict partial order on labels of equal *)
(* length: irreflexive, asymmetric, transitive; and it holds exactly when  *)
(* a and b are not identical, a costs at least as much as b and no         *)
(* resource of a is smaller than that of b.                                *)
(***************************************************************************)
C10_DominanceStrictPartialOrder ==
    dom # <<>> =>
        /\ ~dom.aa
        /\ dom.ab => ~dom.ba
        /\ (dom.ab /\ dom.bc) => dom.ac
        /\ dom.ab <=> /\ da # db
                      /\ da[1] >= db[1]
                      /\ \A i \in 1..Len(da[2]) : ~(da[2][i] < db[2][i])

\* a chain of three different labels was compared
C10_Witness ==
    /\ dom # <<>>
    /\ dom.ab
    /\ dom.bc
    /\ da[1] > dc[1]
    /\ da[2] # dc[2]

(***************************************************************************)
(* C11. At the end of every edge relaxation, when a label is selected and  *)
(* when the search returns (in fact in every state of the search), no      *)
(* label stored at a node is dominated by another label stored at the same *)
(* node.                                                                   *)
(***************************************************************************)
NoLabelDominated(labs) ==
    \A i, j \in 1..Len(labs) : i # j => ~is_dominated(labs[i], labs[j])

C11_NoDominatedLabelKept ==
    Solving => \A n \in Nodes : NoLabelDominated(labels[n])

\* a relaxation has ended with two different labels kept at one node
C11_Witness ==
    /\ pc = "loop"
    /\ \E n \in Nodes :
          /\ Len(labels[n]) >= 2
          /\ labels[n][1] # labels[n][2]

(***************************************************************************)
(* C12. A second run of the solver on the same graph, source, target and   *)
(* max_res returns a path of the same cost as the first run, whatever the  *)
(* orders in which L and the nodes are iterated and however the most       *)
(* repeated node is chosen.                                                *)
(* Violated: on SelfLoopGraph one run returns cost 0, another cost -100.   *)
(***************************************************************************)
C12_RerunSameCost ==
    (Returned /\ first_cost # <<>>) => label[1] = first_cost[1]

(***************************************************************************)
(* C13. Within one GSSA run, the cost GLSA returns in an iteration after   *)
(* the first is at least the cost it returned in the iteration before      *)
(* (which `label` still holds when GLSA returns).                          *)
(* Violated: on SelfLoopOnlyGraph GLSA returns a path through the         *)
(* self-loop and the edge C -> E of cost above 900 with S = [], then       *)
(* [A, B, C, D] of cost -100 with S = [C].                                 *)
(***************************************************************************)
C13_CostNonDecreasing ==
    [][(pc = "loop" /\ pc' = "check" /\ iters >= 2) => label'[1] >= label[1]]_vars

(***************************************************************************)
(* C14. For the visit-once list S in force, when GLSA returns, the cost of *)
(* the returned label is the least cost of a walk from source to target    *)
(* that keeps every physical resource within max_res and enters each node  *)
(* of S at most once, and the returned label and path are the first of     *)
(* that cost in the target's lists.                                        *)
(* Violated: on SelfLoopGraph with S = [] GLSA returns [A, D] of cost 0    *)
(* although the walk [A, B, C, D] costs -100.                              *)
(***************************************************************************)
\* the costs of the feasible walks that go on from node n to the target, with
\* resources `used` consumed, the nodes `seen` of S entered and len nodes so far
RECURSIVE WalkCosts(_, _, _, _)
WalkCosts(n, used, seen, len) ==
    LET out == {e \in G.edges :
                  /\ e.u = n
                  /\ len < MaxPathLen
                  /\ \A res \in 1..n_res : used[res] + e.res_cost[res] <= max_res[res]
                  /\ ~(e.v \in Range(S) /\ e.v \in seen)}
        step(e) == WalkCosts(e.v, [res \in 1..n_res |-> used[res] + e.res_cost[res]],
                             IF e.v \in Range(S) THEN seen \cup {e.v} ELSE seen, len + 1)
    IN  (IF n = target THEN {0} ELSE {})
        \cup UNION {{e.weight + c : c \in step(e)} : e \in out}

CheapestWalkCost == Min(WalkCosts(source, zeros(n_res), {}, 1))

C14_GLSAReturnsCheapestWalk ==
    pc = "check" =>
        /\ label[1] = CheapestWalkCost
        /\ LET first == Min({i \in 1..Len(labels[target]) : labels[target][i][1] = label[1]})
           IN  label = labels[target][first] /\ path = paths[target][first]

(***************************************************************************)
(* C15. The entry GLSA takes out of L for extension has a resource vector  *)
(* that is lexicographically minimal, over all n_res + |S| dimensions,     *)
(* among the resource vectors of the entries pending in L.                 *)
(* Violated: the scan of lines 122-128 keeps every entry that is not above *)
(* the running minimum, the first entry met included, and line 130 takes   *)
(* the first entry kept, i.e. the first entry in the iteration order of L. *)
(***************************************************************************)
RECURSIVE LexLeq(_, _)
LexLeq(a, b) ==
    IF a = <<>> THEN TRUE
    ELSE IF Head(a) # Head(b) THEN Head(a) < Head(b)
    ELSE LexLeq(Tail(a), Tail(b))

ResourcesOf(e) == labels[e[1]][e[2] + 1][2]

C15_SelectsLexMin ==
    [][(pc = "loop" /\ L # {})
          => \A e \in L : LexLeq(ResourcesOf(<<u', l'>>), ResourcesOf(e))]_vars

(***************************************************************************)
(* C16. Within one GLSA invocation a label that has been selected for      *)
(* extension is never removed from its node's list afterwards: every label *)
(* the removal loop pops is still pending in L (a stored label is pending  *)
(* from its insertion until it is selected or popped).  Stated here for    *)
(* the graphs whose edges all consume a positive amount of every resource, *)
(* where a lexicographically minimal selection would make it true.         *)
(* Violated: on DiamondGraph the label (5,[3]) at C is taken from L before *)
(* the label at B, extended to D, and popped when B's label reaches C.     *)
(***************************************************************************)
PositiveResources == \A e \in G.edges : \A res \in 1..n_res : e.res_cost[res] > 0

C16_ExtendedLabelIsKept ==
    [][(/\ PositiveResources
        /\ pc = "remove"
        /\ Len(labels'[Head(todo)]) < Len(labels[Head(todo)]))
          => <<Head(todo), i_label>> \in L]_vars

(***************************************************************************)
(* C17. When a surviving candidate is about to be inserted at node v, for  *)
(* every node n of S whose dimension was 0 in the candidate as extended    *)
(* over the edge (and which the bound table reaches from v), that          *)
(* dimension is 1 exactly when for some resource r the candidate's         *)
(* consumption plus res_min[r][v][n] exceeds max_res[r].                   *)
(* Violated: line 203 reads res_min[res][n].get(n, 0.0), the distance from *)
(* n to itself, so no dimension is ever marked.  On StrongDomGraph with    *)
(* S = [B] the label (5,[1]) at E keeps dimension B at 0 although B is 5   *)
(* away and max_res = [5].                                                 *)
(***************************************************************************)
BeyondBudget(lab, v, n) ==
    \E res \in 1..n_res : lab[2][res] + res_min[res][v][n] > max_res[res]

C17_StrongDominanceMarks ==
    (pc = "remove" /\ n_popped = 0) =>
        LET v == Head(todo)
            cand == extend_label(labels[u][l + 1], u, v)
        IN  \A k \in 1..Len(S) :
                (cand[2][n_res + k] = 0 /\ \A res \in 1..n_res : S[k] \in DOMAIN res_min[res][v])
                    => (v_label[2][n_res + k] = 1 <=> BeyondBudget(cand, v, S[k]))

(***************************************************************************)
(* C18. Throughout a GSSA run S starts empty and never holds a node twice; *)
(* S changes only when a GLSA result is not elementary, and then exactly   *)
(* one node is appended, which occurs in the returned path with the        *)
(* greatest multiplicity, at least twice, and was not in S; an elementary  *)
(* result leaves S as it is.                                               *)
(***************************************************************************)
Multiplicity(p, n) == Cardinality({i \in 1..Len(p) : p[i] = n})

AppendsMostRepeated ==
    \E n \in Range(path) :
        /\ S' = Append(S, n)
        /\ n \notin Range(S)
        /\ Multiplicity(path, n) >= 2
        /\ \A n2 \in Range(path) : Multiplicity(path, n2) <= Multiplicity(path, n)

C18_VisitOnceListGrows ==
    /\ [](pc \in {"start", "gssa"} => S = <<>>)
    /\ [](Solving => NoRepeatedNode(S))
    /\ [][S' # S => (pc = "check" /\ ~NoRepeatedNode(path) /\ AppendsMostRepeated)]_vars
    /\ [][(pc = "check" /\ ~NoRepeatedNode(path)) => S' # S]_vars
    /\ [][(pc = "check" /\ NoRepeatedNode(path)) => S' = S]_vars

\* a second node joined S
C18_Witness ==
    /\ pc = "loop"
    /\ Len(S) = 2
    /\ iters = 3

(***************************************************************************)
(* C19. In every state of GLSA labels[v] and paths[v] have the same length *)
(* and every pending entry (v, i) of L has 0 <= i < len(labels[v]).  When  *)
(* the removal loop pops the label at position i of node v, the labels and *)
(* paths before i stay, those behind move down by one, each surviving      *)
(* label is pending afterwards exactly when it was pending before, and the *)
(* entries of L for other nodes stay.  When the candidate is inserted at   *)
(* v it comes last, it is pending, and nothing else changes in L.          *)
(***************************************************************************)
ListsAligned ==
    /\ \A n \in Nodes : Len(labels[n]) = Len(paths[n])
    /\ \A e \in L : e[2] >= 0 /\ e[2] < Len(labels[e[1]])

OtherNodesKept(v) == {e \in L' : e[1] # v} = {e \in L : e[1] # v}

PopStep(v, i) ==
    /\ Len(paths'[v]) = Len(paths[v]) - 1
    /\ \A k \in 1..Len(labels'[v]) :
          /\ labels'[v][k] = labels[v][IF k <= i THEN k ELSE k + 1]
          /\ paths'[v][k] = paths[v][IF k <= i THEN k ELSE k + 1]
    /\ \A j \in 0..(Len(labels[v]) - 1) :
          j # i => (<<v, j>> \in L <=> <<v, IF j > i THEN j - 1 ELSE j>> \in L')
    /\ OtherNodesKept(v)

InsertStep(v) ==
    /\ Len(paths'[v]) = Len(paths[v]) + 1
    /\ \A k \in 1..Len(labels[v]) :
          /\ labels'[v][k] = labels[v][k]
          /\ paths'[v][k] = paths[v][k]
    /\ Last(labels'[v]) = v_label /\ Last(paths'[v]) = v_path
    /\ L' = L \cup {<<v, Len(labels[v])>>}
    /\ <<v, Len(labels[v])>> \notin L

C19_PendingIndicesConsistent ==
    /\ [](InGLSA => ListsAligned)
    /\ [][(pc = "remove" /\ Len(labels'[Head(todo)]) < Len(labels[Head(todo)]))
            => PopStep(Head(todo), i_label)]_vars
    /\ [][(pc = "remove" /\ Len(labels'[Head(todo)]) > Len(labels[Head(todo)]))
            => InsertStep(Head(todo))]_vars
    /\ [][(pc = "remove" /\ Len(labels'[Head(todo)]) = Len(labels[Head(todo)]))
            => (UNCHANGED <<labels, paths, L>>)]_vars

\* a label was popped in front of one that is pending, which was renumbered
C19_Witness ==
    /\ pc = "remove"
    /\ n_popped >= 1
    /\ \E e \in L : e[1] = Head(todo) /\ e[2] >= i_label

(***************************************************************************)
(* C20. A GLSA invocation leaves the input graph, the budgets, the reduced *)
(* graph, the bound table res_min and the list S as they are; GSSA changes *)
(* only S between invocations; and every invocation starts from the single *)
(* zero label at the source, the single path [source] and L = {(source,    *)
(* 0)}, with nothing left from the invocation before.                      *)
(***************************************************************************)
FreshSearch ==
    /\ labels' = [n \in Nodes |->
                    IF n = source THEN << <<0, [i \in 1..(n_res + Len(S')) |-> 0]>> >> ELSE <<>>]
    /\ paths' = [n \in Nodes |-> IF n = source THEN << <<source>> >> ELSE <<>>]
    /\ L' = {<<source, 0>>}

C20_GLSALeavesInputsAlone ==
    /\ [][InGLSA => (UNCHANGED <<G, source, target, max_res, H, res_min, S>>)]_vars
    /\ [][(pc \in {"gssa", "check"}) => (UNCHANGED <<G, source, target, max_res, H, res_min>>)]_vars
    /\ [][(pc \in {"gssa", "check"} /\ pc' = "loop") => FreshSearch]_vars

\* the second invocation is under way on the same graph and table
C20_Witness ==
    /\ pc = "extend"
    /\ iters >= 2
    /\ Len(S) >= 1
    /\ u # source
    /\ labels[target] # <<>>

====
